---- MODULE Spec2Model ----
(***************************************************************************)
(* Model of the read-through cache of wtsi-hgi/gst (package server):       *)
(* Cache.GetSamples, a double-checked refresh under a sync.RWMutex, called *)
(* concurrently by the HTTP handlers.  Collections are identified by the   *)
(* number of the provider invocation that produced them.                   *)
(***************************************************************************)
EXTENDS Integers, FiniteSets, Sequences, TLC

\* ---------------------------------------------------------------- bounds
NumCallers == 3
MaxTime == 1
MaxTTL == 2

\* every request handler runs in its own goroutine and calls GetSamples once
Callers == 1..NumCallers
\* a collection is named by the number of the invocation that produced it;
\* a call invokes the provider at most once
Versions == 1..NumCallers

\* ------------------------------------------------------- program values
\* c.samples == nil (zero value of the pointer field)
Nil == 0
\* zero time.Time held by c.lastFetched before the first store
Never == -1
\* no goroutine holds the write side of c.mu
NoWriter == 0
\* os.Open fails on the path
NoFile == << <<-1>> >>
\* a connector nothing has been called on
NewConnector ==
    [calls |-> 0, connects |-> 0, fails |-> 0, nils |-> 0, queries |-> 0,
     closes |-> 0, db |-> "none"]
\* the cache was built by NewCache directly, not by server.New
NoServer == -1
\* 5 * time.Minute, in ticks of one minute
DefaultTTL == 5

NoResult == [kind |-> "none", val |-> 0]
Ok(v) == [kind |-> "ok", val |-> v]
Err(k) == [kind |-> "err", val |-> k]

VARIABLES
    ttl,          \* Cache.ttl, fixed at construction
    now,          \* the monotonic clock read by time.Since / time.Now
    samples,      \* Cache.samples: Nil or the version held
    lastFetched,  \* Cache.lastFetched: Never or the time of the last store
    readers,      \* goroutines holding c.mu for reading
    writer,       \* goroutine that has called c.mu.Lock() and excludes new readers
    pc,           \* position of each caller inside GetSamples
    result,       \* what the caller's GetSamples call returns
    myInv,        \* number of the provider invocation made by this call (0: none)
    fetchCount,   \* provider invocations started so far (executeCalls)
    \* history variables
    lfVer,        \* version whose store wrote lastFetched
    refreshed,    \* version of the last refresh that completed its store
    storedAt,     \* time at which each version was stored (Never: not stored)
    failed,       \* provider invocations that returned an error
    execAt,       \* time at which the latest provider invocation started
    startRef,     \* value of refreshed when the call started
    staleAt,      \* fetchCount when the call's first check found the cache stale (-1: not)
    inWindow,     \* the call's re-check came less than ttl after the store it waited for
    waitedFail,   \* invocation that failed while this call was waiting on it (0: none)
    \* one call of a filter or aggregate function
    recs,         \* the input: the []db.TrackedSample passed in, or the rows put in a file
    argSponsor,   \* the sponsor argument
    argStudy,     \* the study argument
    op,           \* the function that has been called ("none": not yet)
    out,          \* what the function returned
    \* the server built by New
    cfgTTL,       \* Config.CacheTTL as passed to New (NoServer: no server built)
    cacheCallAt,  \* time at which the last handler called GetSamples (Never: it did not)
    \* package db
    file,         \* the lines of the TSV file (NoFile: there is none)
    conn          \* the DBConnector: calls made to it and the handle it gave

cacheVars == <<samples, lastFetched>>
lockVars == <<readers, writer>>
histVars == <<lfVer, refreshed, storedAt, failed, execAt>>
callVars == <<result, myInv, startRef, staleAt, inWindow, waitedFail>>
cacheSide == <<ttl, now, cacheVars, lockVars, pc, fetchCount, histVars, callVars>>
serverVars == <<cfgTTL, cacheCallAt>>
ioVars == <<file, conn>>
pureVars == <<recs, argSponsor, argStudy, op, out, serverVars, ioVars>>
vars == <<cacheSide, pureVars>>

\* --------------------------------------------------------------- helpers
\* time.Since(t): the zero time is further back than any TTL
Forever == MaxTime + MaxTTL + DefaultTTL + 1
Since(t) == IF t = Never THEN Forever ELSE now - t

\* c.samples != nil && time.Since(c.lastFetched) < c.ttl
FreshInclusive(s, lf) == s # Nil /\ Since(lf) <= ttl
FreshSamplesOnly(s, lf) == s # Nil
Fresh(s, lf) == s # Nil /\ Since(lf) < ttl

\* the check made under the read lock
FirstCheckNoTime == samples # Nil
FirstCheckFresh == Fresh(samples, lastFetched)

\* the check made again under the write lock
RecheckSkipped == FALSE
RecheckFresh == Fresh(samples, lastFetched)

\* sync.RWMutex: RLock blocks while a writer holds or awaits the lock
CanRLockAlways(c) == TRUE
CanRLockExclusive(c) == writer = NoWriter /\ readers = {}
CanRLock(c) == writer = NoWriter

\* sync.RWMutex: Lock first excludes other writers ...
CanLockAlways(c) == TRUE
CanLock(c) == writer = NoWriter

\* ... then waits for the active readers to leave
ReadersGone(c) == readers = {}

\* no filter or aggregate function is being exercised
PureIdle ==
    /\ recs = <<>>
    /\ argSponsor = <<>>
    /\ argStudy = <<>>
    /\ op = "none"
    /\ out = <<>>
    /\ cfgTTL = NoServer
    /\ cacheCallAt = Never
    /\ file = NoFile
    /\ conn = NewConnector

\* NewCache(provider, ttl): no collection, zero timestamp, unlocked mutex
NewCache(t) ==
    /\ ttl = t
    /\ now = 0
    /\ samples = Nil
    /\ lastFetched = Never
    /\ readers = {}
    /\ writer = NoWriter
    /\ pc = [c \in Callers |-> "idle"]
    /\ result = [c \in Callers |-> NoResult]
    /\ myInv = [c \in Callers |-> 0]
    /\ fetchCount = 0
    /\ lfVer = Nil
    /\ refreshed = Nil
    /\ storedAt = [v \in Versions |-> Never]
    /\ failed = {}
    /\ execAt = Never
    /\ startRef = [c \in Callers |-> Nil]
    /\ staleAt = [c \in Callers |-> -1]
    /\ inWindow = [c \in Callers |-> FALSE]
    /\ waitedFail = [c \in Callers |-> 0]

Init ==
    /\ PureIdle
    /\ \E t \in 0..MaxTTL : NewCache(t)

\* ---------------------------------------------------------------- actions
\* a request handler, in its own goroutine, calls s.cache.GetSamples()
Call(c) ==
    /\ pc[c] = "idle"
    /\ pc' = [pc EXCEPT ![c] = "rlock"]
    /\ startRef' = [startRef EXCEPT ![c] = refreshed]
    /\ UNCHANGED <<pureVars, ttl, now, cacheVars, lockVars, fetchCount, histVars,
                   result, myInv, staleAt, inWindow, waitedFail>>

\* c.mu.RLock()
RLock(c) ==
    /\ pc[c] = "rlock"
    /\ CanRLock(c)
    /\ readers' = readers \cup {c}
    /\ pc' = [pc EXCEPT ![c] = "check1"]
    /\ UNCHANGED <<pureVars, ttl, now, cacheVars, writer, fetchCount, histVars, callVars>>

\* the fast-path check. Fresh: return c.samples with the deferred RUnlock.
\* Stale: c.mu.RUnlock() and go on to c.mu.Lock()
FirstCheck(c) ==
    /\ pc[c] = "check1"
    /\ IF FirstCheckFresh
       THEN /\ result' = [result EXCEPT ![c] = Ok(samples)]
            /\ pc' = [pc EXCEPT ![c] = "done"]
            /\ UNCHANGED staleAt
       ELSE /\ pc' = [pc EXCEPT ![c] = "lock"]
            /\ staleAt' = [staleAt EXCEPT ![c] = fetchCount]
            /\ UNCHANGED result
    /\ readers' = readers \ {c}
    /\ UNCHANGED <<pureVars, ttl, now, cacheVars, writer, fetchCount, histVars,
                   myInv, startRef, inWindow, waitedFail>>

\* c.mu.Lock(): become the pending writer
Lock(c) ==
    /\ pc[c] = "lock"
    /\ CanLock(c)
    /\ writer' = c
    /\ pc' = [pc EXCEPT ![c] = "lockwait"]
    /\ UNCHANGED <<pureVars, ttl, now, cacheVars, readers, fetchCount, histVars, callVars>>

\* c.mu.Lock() returns once the active readers have left; the second check.
\* Fresh: return c.samples with the deferred Unlock.
\* Stale: c.provider.Execute() is called
Recheck(c) ==
    /\ pc[c] = "lockwait"
    /\ ReadersGone(c)
    /\ inWindow' = [inWindow EXCEPT ![c] =
                        /\ refreshed = staleAt[c] + 1
                        /\ Since(storedAt[refreshed]) < ttl]
    /\ IF RecheckFresh
       THEN /\ result' = [result EXCEPT ![c] = Ok(samples)]
            /\ pc' = [pc EXCEPT ![c] = "done"]
            /\ writer' = NoWriter
            /\ UNCHANGED <<fetchCount, myInv, execAt>>
       ELSE /\ fetchCount' = fetchCount + 1
            /\ myInv' = [myInv EXCEPT ![c] = fetchCount + 1]
            /\ execAt' = now
            /\ pc' = [pc EXCEPT ![c] = "exec"]
            /\ UNCHANGED <<result, writer>>
    /\ UNCHANGED <<pureVars, ttl, now, cacheVars, readers, lfVer, refreshed,
                   storedAt, failed, startRef, staleAt, waitedFail>>

\* callers that found the cache stale and wait for the write lock
Waiting == {d \in Callers : pc[d] \in {"lock", "lockwait"}}

\* the provider returns (nil, err): return nil, err with the deferred Unlock
ExecuteErrStamps(c) ==
    /\ pc[c] = "exec"
    /\ lastFetched' = now
    /\ result' = [result EXCEPT ![c] = Err(myInv[c])]
    /\ failed' = failed \cup {myInv[c]}
    /\ waitedFail' = [d \in Callers |->
                        IF d \in Waiting THEN myInv[c] ELSE waitedFail[d]]
    /\ writer' = NoWriter
    /\ pc' = [pc EXCEPT ![c] = "done"]
    /\ UNCHANGED <<pureVars, ttl, now, samples, readers, fetchCount, lfVer, refreshed,
                   storedAt, execAt, myInv, startRef, staleAt, inWindow>>
ExecuteErrClears(c) ==
    /\ pc[c] = "exec"
    /\ samples' = Nil
    /\ result' = [result EXCEPT ![c] = Err(myInv[c])]
    /\ failed' = failed \cup {myInv[c]}
    /\ waitedFail' = [d \in Callers |->
                        IF d \in Waiting THEN myInv[c] ELSE waitedFail[d]]
    /\ writer' = NoWriter
    /\ pc' = [pc EXCEPT ![c] = "done"]
    /\ UNCHANGED <<pureVars, ttl, now, lastFetched, readers, fetchCount, lfVer, refreshed,
                   storedAt, execAt, myInv, startRef, staleAt, inWindow>>
ExecuteErrServesHeld(c) ==
    /\ pc[c] = "exec"
    /\ result' = [result EXCEPT ![c] = Ok(samples)]
    /\ failed' = failed \cup {myInv[c]}
    /\ waitedFail' = [d \in Callers |->
                        IF d \in Waiting THEN myInv[c] ELSE waitedFail[d]]
    /\ writer' = NoWriter
    /\ pc' = [pc EXCEPT ![c] = "done"]
    /\ UNCHANGED <<pureVars, ttl, now, cacheVars, readers, fetchCount, lfVer, refreshed,
                   storedAt, execAt, myInv, startRef, staleAt, inWindow>>
ExecuteErrKeepsLock(c) ==
    /\ pc[c] = "exec"
    /\ result' = [result EXCEPT ![c] = Err(myInv[c])]
    /\ failed' = failed \cup {myInv[c]}
    /\ waitedFail' = [d \in Callers |->
                        IF d \in Waiting THEN myInv[c] ELSE waitedFail[d]]
    /\ pc' = [pc EXCEPT ![c] = "done"]
    /\ UNCHANGED <<pureVars, ttl, now, cacheVars, lockVars, fetchCount, lfVer,
                   refreshed, storedAt, execAt, myInv, startRef, staleAt, inWindow>>
ExecuteErr(c) ==
    /\ pc[c] = "exec"
    /\ result' = [result EXCEPT ![c] = Err(myInv[c])]
    /\ failed' = failed \cup {myInv[c]}
    /\ waitedFail' = [d \in Callers |->
                        IF d \in Waiting THEN myInv[c] ELSE waitedFail[d]]
    /\ writer' = NoWriter
    /\ pc' = [pc EXCEPT ![c] = "done"]
    /\ UNCHANGED <<pureVars, ttl, now, cacheVars, readers, fetchCount, lfVer, refreshed,
                   storedAt, execAt, myInv, startRef, staleAt, inWindow>>

\* the provider returns (samples, nil); c.samples = samples
ExecuteOkKeepOld(c) ==
    /\ pc[c] = "exec"
    /\ samples' = IF samples = Nil THEN myInv[c] ELSE samples
    /\ pc' = [pc EXCEPT ![c] = "store_time"]
    /\ UNCHANGED <<pureVars, ttl, now, lastFetched, lockVars, fetchCount, histVars, callVars>>
ExecuteOk(c) ==
    /\ pc[c] = "exec"
    /\ samples' = myInv[c]
    /\ pc' = [pc EXCEPT ![c] = "store_time"]
    /\ UNCHANGED <<pureVars, ttl, now, lastFetched, lockVars, fetchCount, histVars, callVars>>

\* c.lastFetched = time.Now(); return c.samples, nil with the deferred Unlock
StoreTimeForgotten(c) ==
    /\ pc[c] = "store_time"
    /\ lfVer' = myInv[c]
    /\ refreshed' = myInv[c]
    /\ storedAt' = [storedAt EXCEPT ![myInv[c]] = now]
    /\ result' = [result EXCEPT ![c] = Ok(samples)]
    /\ writer' = NoWriter
    /\ pc' = [pc EXCEPT ![c] = "done"]
    /\ UNCHANGED <<pureVars, ttl, now, cacheVars, readers, fetchCount, failed, execAt,
                   myInv, startRef, staleAt, inWindow, waitedFail>>
StoreTimeAtStart(c) ==
    /\ pc[c] = "store_time"
    /\ lastFetched' = execAt
    /\ lfVer' = myInv[c]
    /\ refreshed' = myInv[c]
    /\ storedAt' = [storedAt EXCEPT ![myInv[c]] = now]
    /\ result' = [result EXCEPT ![c] = Ok(samples)]
    /\ writer' = NoWriter
    /\ pc' = [pc EXCEPT ![c] = "done"]
    /\ UNCHANGED <<pureVars, ttl, now, samples, readers, fetchCount, failed, execAt,
                   myInv, startRef, staleAt, inWindow, waitedFail>>
StoreTime(c) ==
    /\ pc[c] = "store_time"
    /\ lastFetched' = now
    /\ lfVer' = myInv[c]
    /\ refreshed' = myInv[c]
    /\ storedAt' = [storedAt EXCEPT ![myInv[c]] = now]
    /\ result' = [result EXCEPT ![c] = Ok(samples)]
    /\ writer' = NoWriter
    /\ pc' = [pc EXCEPT ![c] = "done"]
    /\ UNCHANGED <<pureVars, ttl, now, samples, readers, fetchCount, failed, execAt,
                   myInv, startRef, staleAt, inWindow, waitedFail>>

\* time passes
Tick ==
    /\ now < MaxTime
    /\ now' = now + 1
    /\ UNCHANGED <<pureVars, ttl, cacheVars, lockVars, pc, fetchCount, histVars, callVars>>

Next ==
    \/ \E c \in Callers : Call(c)
    \/ \E c \in Callers : RLock(c)
    \/ \E c \in Callers : FirstCheck(c)
    \/ \E c \in Callers : Lock(c)
    \/ \E c \in Callers : Recheck(c)
    \/ \E c \in Callers : ExecuteOk(c)
    \/ \E c \in Callers : ExecuteErr(c)
    \/ \E c \in Callers : StoreTime(c)
    \/ Tick

Spec == Init /\ [][Next]_vars

\* the goroutine of a call that can take its next step takes it, and every
\* provider invocation returns
Fairness ==
    \A c \in Callers :
        /\ WF_vars(RLock(c))
        /\ WF_vars(FirstCheck(c))
        /\ WF_vars(Lock(c))
        /\ WF_vars(Recheck(c))
        /\ WF_vars(ExecuteOk(c) \/ ExecuteErr(c))
        /\ WF_vars(StoreTime(c))

SpecLive == Spec /\ Fairness

\* ------------------------------------------ filter and aggregate functions
\* longest record slice passed to a function
MaxRecs == 3

\* a Go string is its sequence of bytes
EmptyString == <<>>
SponsorNames == {EmptyString, <<65>>, <<65, 32>>, <<97>>}   \* "", "A", "A ", "a"
StudyNames == {EmptyString, <<83>>, <<115>>}                \* "", "S", "s"

\* *int fields of db.TrackedSample
NilInt == [isNil |-> TRUE, v |-> 0]
IntPtr(n) == [isNil |-> FALSE, v |-> n]

\* db.TrackedSample, with the fields the functions read
TrackedSample(sponsor, study, id, supplier, lib, seq) ==
    [FacultySponsor |-> sponsor, StudyName |-> study, SangerSampleID |-> id,
     SupplierName |-> supplier, LibraryTime |-> lib, SequencingTime |-> seq]

FilterRecords ==
    {TrackedSample(sp, st, <<73>>, <<80>>, NilInt, NilInt) :
        sp \in SponsorNames, st \in StudyNames}

SlicesOf(S) == UNION {[1..n -> S] : n \in 0..MaxRecs}

\* a < b on Go strings: bytewise, a proper prefix is smaller
RECURSIVE LexLess(_, _)
LexLess(a, b) ==
    IF b = <<>> THEN FALSE
    ELSE IF a = <<>> THEN TRUE
    ELSE IF Head(a) # Head(b) THEN Head(a) < Head(b)
    ELSE LexLess(Tail(a), Tail(b))

\* sort.Strings on a short slice: insertion sort
RECURSIVE InsertString(_, _)
InsertString(x, sorted) ==
    IF sorted = <<>> THEN <<x>>
    ELSE IF LexLess(x, Head(sorted)) THEN <<x>> \o sorted
    ELSE <<Head(sorted)>> \o InsertString(x, Tail(sorted))

RECURSIVE InsertAll(_, _)
InsertAll(xs, sorted) ==
    IF xs = <<>> THEN sorted
    ELSE InsertAll(Tail(xs), InsertString(Head(xs), sorted))

SortStringsSkipped(xs) == xs
SortStrings(xs) == InsertAll(xs, <<>>)

\* `for key := range m`: the keys of a map, once each, in any order
MapOrders(m) ==
    {o \in [1..Cardinality(m) -> m] :
        \A i, j \in 1..Cardinality(m) : i # j => o[i] # o[j]}

\* sample.FacultySponsor != ""
HasSponsorAlways(sample) == TRUE
HasSponsor(sample) == sample.FacultySponsor # EmptyString

\* first loop of GetUniqueFacultySponsors
RECURSIVE CollectSponsors(_, _)
CollectSponsors(ss, sponsorMap) ==
    IF ss = <<>> THEN sponsorMap
    ELSE CollectSponsors(Tail(ss),
            IF HasSponsor(Head(ss))
            THEN sponsorMap \cup {Head(ss).FacultySponsor}
            ELSE sponsorMap)

\* the slices GetUniqueFacultySponsors can return (one per map order)
GetUniqueFacultySponsors(ss) ==
    {SortStrings(o) : o \in MapOrders(CollectSponsors(ss, {}))}

\* string == string in Go: same bytes
NotSpace(ch) == ch # 32
Folded(a) ==
    LET t == SelectSeq(a, NotSpace)
    IN  [i \in 1..Len(t) |-> IF t[i] \in 65..90 THEN t[i] + 32 ELSE t[i]]
SameStringLoose(a, b) == Folded(a) = Folded(b)
SameString(a, b) == a = b

\* first loop of GetStudiesForSponsor
RECURSIVE CollectStudies(_, _, _)
CollectStudies(ss, sponsor, studyMap) ==
    IF ss = <<>> THEN studyMap
    ELSE CollectStudies(Tail(ss), sponsor,
            IF /\ SameString(Head(ss).FacultySponsor, sponsor)
               /\ Head(ss).StudyName # EmptyString
            THEN studyMap \cup {Head(ss).StudyName}
            ELSE studyMap)

\* the slices GetStudiesForSponsor can return (one per map order)
GetStudiesForSponsor(ss, sponsor) ==
    {SortStrings(o) : o \in MapOrders(CollectStudies(ss, sponsor, {}))}

\* study != "" && sample.StudyName != study
StudyExcludedNever(sample, study) == FALSE
StudyExcluded(sample, study) ==
    study # EmptyString /\ ~SameString(sample.StudyName, study)

\* the loop of FilterSamples
RECURSIVE FilterLoop(_, _, _, _)
FilterLoop(ss, sponsor, study, filtered) ==
    IF ss = <<>> THEN filtered
    ELSE FilterLoop(Tail(ss), sponsor, study,
            IF ~SameString(Head(ss).FacultySponsor, sponsor) THEN filtered
            ELSE IF StudyExcluded(Head(ss), study) THEN filtered
            ELSE Append(filtered, Head(ss)))

FilterSamplesNoShortcut(ss, sponsor, study) ==
    FilterLoop(ss, sponsor, study, <<>>)
FilterSamples(ss, sponsor, study) ==
    IF sponsor = EmptyString THEN ss
    ELSE FilterLoop(ss, sponsor, study, <<>>)

\* ------------------------------------------------------------ chart series
\* libTime := 0; if p != nil { libTime = *p }
DerefSkipsZero(p) == IF p.isNil THEN -1 ELSE p.v
DerefOrZero(p) == IF p.isNil THEN 0 ELSE p.v

\* the value appended to chartData.Labels
ChartLabelSupplier(sample) == sample.SupplierName
ChartLabel(sample) == sample.SangerSampleID

EmptyChartData ==
    [Labels |-> <<>>, SampleIds |-> <<>>, LibraryTime |-> <<>>,
     SequencingTime |-> <<>>]

RECURSIVE ChartLoop(_, _)
ChartLoop(ss, chartData) ==
    IF ss = <<>> THEN chartData
    ELSE ChartLoop(Tail(ss),
            [Labels |-> Append(chartData.Labels, ChartLabel(Head(ss))),
             SampleIds |-> Append(chartData.SampleIds, Head(ss).SangerSampleID),
             LibraryTime |->
                 Append(chartData.LibraryTime, DerefOrZero(Head(ss).LibraryTime)),
             SequencingTime |->
                 Append(chartData.SequencingTime,
                        DerefOrZero(Head(ss).SequencingTime))])

prepareChartData(ss) == ChartLoop(ss, EmptyChartData)

\* ------------------------------------------------- calls of the functions
\* a test or handler passes a record slice to one of the functions
InitFilter ==
    /\ NewCache(0)
    /\ recs \in SlicesOf(FilterRecords)
    /\ argSponsor = EmptyString
    /\ argStudy = EmptyString
    /\ op = "none"
    /\ out = <<>>
    /\ cfgTTL = NoServer
    /\ cacheCallAt = Never
    /\ file = NoFile
    /\ conn = NewConnector

ApplySponsors ==
    /\ op = "none"
    /\ op' = "sponsors"
    /\ out' \in GetUniqueFacultySponsors(recs)
    /\ UNCHANGED <<recs, argSponsor, argStudy, serverVars, ioVars, cacheSide>>

ApplyStudies ==
    /\ op = "none"
    /\ op' = "studies"
    /\ \E sponsor \in SponsorNames :
        /\ argSponsor' = sponsor
        /\ out' \in GetStudiesForSponsor(recs, sponsor)
    /\ UNCHANGED <<recs, argStudy, serverVars, ioVars, cacheSide>>

\* a filter that reuses the input's backing array (filtered := ss[:0])
ApplyFilterInPlace ==
    /\ op = "none"
    /\ op' = "filter"
    /\ \E sponsor \in SponsorNames, study \in StudyNames :
        /\ argSponsor' = sponsor
        /\ argStudy' = study
        /\ out' = FilterSamples(recs, sponsor, study)
        /\ recs' = [i \in 1..Len(recs) |->
                        IF i <= Len(out') THEN out'[i] ELSE recs[i]]
    /\ UNCHANGED <<serverVars, ioVars, cacheSide>>

ApplyFilter ==
    /\ op = "none"
    /\ op' = "filter"
    /\ \E sponsor \in SponsorNames, study \in StudyNames :
        /\ argSponsor' = sponsor
        /\ argStudy' = study
        /\ out' = FilterSamples(recs, sponsor, study)
    /\ UNCHANGED <<recs, serverVars, ioVars, cacheSide>>

ApplyChart ==
    /\ op = "none"
    /\ op' = "chart"
    /\ out' = prepareChartData(recs)
    /\ UNCHANGED <<recs, argSponsor, argStudy, serverVars, ioVars, cacheSide>>

NextFilter ==
    \/ ApplySponsors
    \/ ApplyStudies
    \/ ApplyFilter
    \/ ApplyChart

SpecFilter == InitFilter /\ [][NextFilter]_vars

\* records that differ in what the chart reads
ChartRecords ==
    {TrackedSample(<<65>>, <<83>>, id, supplier, lib, seq) :
        id \in {<<73>>, <<74>>}, supplier \in {<<80>>, <<73>>},
        lib \in {NilInt, IntPtr(0), IntPtr(3)}, seq \in {NilInt, IntPtr(5)}}

InitChart ==
    /\ NewCache(0)
    /\ recs \in SlicesOf(ChartRecords)
    /\ argSponsor = EmptyString
    /\ argStudy = EmptyString
    /\ op = "none"
    /\ out = <<>>
    /\ cfgTTL = NoServer
    /\ cacheCallAt = Never
    /\ file = NoFile
    /\ conn = NewConnector

NextChart ==
    \/ ApplyChart

SpecChart == InitChart /\ [][NextChart]_vars

\* ------------------------------------------------------------- the server
\* New: a Config.CacheTTL of zero is replaced by the default
CacheTTLAsGiven(t) == t
CacheTTL(t) == IF t = 0 THEN DefaultTTL ELSE t

\* the records the provider returns at its v-th invocation
ProviderRows(v) ==
    << TrackedSample(<<65>>, <<83>>, <<48 + v>>, <<80>>, IntPtr(v), NilInt),
       TrackedSample(<<65>>, <<115>>, <<48 + v>>, <<80>>, NilInt, IntPtr(v)),
       TrackedSample(<<97>>, <<83>>, <<48 + v>>, <<80>>, NilInt, NilInt) >>

\* r.URL.Query().Get("sponsor") and Get("study")
QuerySponsors == {EmptyString, <<65>>, <<97>>}
QueryStudies == {EmptyString, <<83>>, <<115>>}

\* what a handler writes to the http.ResponseWriter
Response(status, kind, payload) ==
    [status |-> status, kind |-> kind, payload |-> payload]

\* http.Error(w, "Error retrieving sample data: ...", 500)
RespondErrorServesHeld(held) ==
    IF held = Nil THEN Response(500, "error", <<>>)
    ELSE Response(200, "held", ProviderRows(held))
RespondError(held) == Response(500, "error", <<>>)

\* samples_table.html rendered with HasData and Samples
Table(hasData, rows) ==
    Response(200, "table", [HasData |-> hasData, Samples |-> rows])

\* sponsor == "" || study == ""
MissingFilterSponsorOnly(sponsor, study) == sponsor = EmptyString
MissingFilter(sponsor, study) == sponsor = EmptyString \/ study = EmptyString

\* s.cache.GetSamples() called by a handler while no other request is in
\* flight: what it returns ...
GetSamplesResult(ok) ==
    IF Fresh(samples, lastFetched) THEN Ok(samples)
    ELSE IF ok THEN Ok(fetchCount + 1)
    ELSE Err(fetchCount + 1)

\* ... and what it does to the cache
GetSamplesEffect(ok) ==
    /\ cacheCallAt' = now
    /\ IF Fresh(samples, lastFetched)
       THEN UNCHANGED <<samples, lastFetched, fetchCount>>
       ELSE /\ fetchCount < NumCallers
            /\ fetchCount' = fetchCount + 1
            /\ IF ok
               THEN samples' = fetchCount + 1 /\ lastFetched' = now
               ELSE UNCHANGED <<samples, lastFetched>>

\* the handler returns before it reaches s.cache.GetSamples()
NoCacheCall ==
    /\ cacheCallAt' = Never
    /\ UNCHANGED <<samples, lastFetched, fetchCount>>

\* what no handler touches
HandlerFrame ==
    UNCHANGED <<ttl, now, lockVars, pc, histVars, callVars, recs, cfgTTL, ioVars>>

\* server.New(config), the routes registered
InitServer ==
    /\ \E t \in 0..MaxTTL : cfgTTL = t /\ NewCache(CacheTTL(t))
    /\ recs = <<>>
    /\ argSponsor = EmptyString
    /\ argStudy = EmptyString
    /\ op = "none"
    /\ out = <<>>
    /\ cacheCallAt = Never
    /\ file = NoFile
    /\ conn = NewConnector

\* GET /api/samples
handleSamples ==
    \E sponsor \in QuerySponsors, study \in QueryStudies, ok \in BOOLEAN :
        /\ op' = "samples"
        /\ argSponsor' = sponsor
        /\ argStudy' = study
        /\ IF MissingFilter(sponsor, study)
           THEN /\ out' = Table(FALSE, <<>>)
                /\ NoCacheCall
           ELSE /\ GetSamplesEffect(ok)
                /\ out' =
                    IF GetSamplesResult(ok).kind = "err"
                    THEN RespondError(samples)
                    ELSE Table(TRUE,
                            FilterSamples(ProviderRows(GetSamplesResult(ok).val),
                                          sponsor, study))
        /\ HandlerFrame

\* GET /api/chart
handleChart ==
    \E sponsor \in QuerySponsors, study \in QueryStudies, ok \in BOOLEAN :
        /\ op' = "chart"
        /\ argSponsor' = sponsor
        /\ argStudy' = study
        /\ IF MissingFilter(sponsor, study)
           THEN /\ out' = Response(200, "chart", EmptyChartData)
                /\ NoCacheCall
           ELSE /\ GetSamplesEffect(ok)
                /\ out' =
                    IF GetSamplesResult(ok).kind = "err"
                    THEN RespondError(samples)
                    ELSE Response(200, "chart",
                            prepareChartData(
                                FilterSamples(ProviderRows(GetSamplesResult(ok).val),
                                              sponsor, study)))
        /\ HandlerFrame

\* GET /api/filters
handleFilters ==
    \E ok \in BOOLEAN :
        /\ op' = "filters"
        /\ argSponsor' = EmptyString
        /\ argStudy' = EmptyString
        /\ GetSamplesEffect(ok)
        /\ IF GetSamplesResult(ok).kind = "err"
           THEN out' = RespondError(samples)
           ELSE \E sponsors \in
                    GetUniqueFacultySponsors(ProviderRows(GetSamplesResult(ok).val)) :
                    out' = Response(200, "filters", sponsors)
        /\ HandlerFrame

\* GET /api/studies
handleStudies ==
    \E sponsor \in QuerySponsors, ok \in BOOLEAN :
        /\ op' = "studies"
        /\ argSponsor' = sponsor
        /\ argStudy' = EmptyString
        /\ IF sponsor = EmptyString
           THEN /\ out' = Response(400, "error", <<>>)
                /\ NoCacheCall
           ELSE /\ GetSamplesEffect(ok)
                /\ IF GetSamplesResult(ok).kind = "err"
                   THEN out' = RespondError(samples)
                   ELSE \E studies \in
                            GetStudiesForSponsor(
                                ProviderRows(GetSamplesResult(ok).val), sponsor) :
                            out' = Response(200, "studies", studies)
        /\ HandlerFrame

NextServer ==
    \/ handleSamples
    \/ handleChart
    \/ handleFilters
    \/ handleStudies
    \/ Tick

SpecServer == InitServer /\ [][NextServer]_vars

\* --------------------------------------------------- MySQLQueryProvider
\* everything but the connector, the position in Execute and its return
MySQLFrame ==
    UNCHANGED <<recs, argSponsor, argStudy, serverVars, file, cacheSide>>

\* (nil, err) and (collection, nil)
ExecuteFails(why) == [kind |-> "err", why |-> why]
ExecuteSucceeds == [kind |-> "ok", why |-> "none"]

\* defer p.connector.Close(), run when Execute returns by the given path
DeferredCloseOnSuccess(c, path) ==
    IF path = "ok" THEN [c EXCEPT !.closes = @ + 1] ELSE c
DeferredClose(c, path) == [c EXCEPT !.closes = @ + 1]

\* the cache calls p.Execute()
InitMySQL ==
    /\ NewCache(0)
    /\ recs = <<>>
    /\ argSponsor = EmptyString
    /\ argStudy = EmptyString
    /\ op = "none"
    /\ out = ExecuteSucceeds
    /\ cfgTTL = NoServer
    /\ cacheCallAt = Never
    /\ file = NoFile
    /\ conn = NewConnector

ExecuteStart ==
    /\ op \in {"none", "returned"}
    /\ conn.calls < NumCallers
    /\ op' = "connecting"
    /\ conn' = [conn EXCEPT !.calls = @ + 1, !.db = "none"]
    /\ UNCHANGED out
    /\ MySQLFrame

\* db, err := p.connector.Connect(); on error return it
Connect ==
    /\ op = "connecting"
    /\ \E got \in {"fail", "nil", "db"} :
        IF got = "fail"
        THEN /\ conn' = [conn EXCEPT !.connects = @ + 1, !.fails = @ + 1]
             /\ out' = ExecuteFails("connect")
             /\ op' = "returned"
        ELSE /\ conn' = [conn EXCEPT !.connects = @ + 1, !.db = got,
                                     !.nils = IF got = "nil" THEN @ + 1 ELSE @]
             /\ op' = "connected"
             /\ UNCHANGED out
    /\ MySQLFrame

\* if db == nil return an error, else db.Query(GetEmbeddedSQL())
Query ==
    /\ op = "connected"
    /\ IF conn.db = "nil"
       THEN /\ out' = ExecuteFails("nil")
            /\ conn' = DeferredClose(conn, "nil")
            /\ op' = "returned"
       ELSE \E ok \in BOOLEAN :
            IF ok
            THEN /\ conn' = [conn EXCEPT !.queries = @ + 1]
                 /\ op' = "rows"
                 /\ UNCHANGED out
            ELSE /\ conn' = DeferredClose([conn EXCEPT !.queries = @ + 1], "query")
                 /\ out' = ExecuteFails("query")
                 /\ op' = "returned"
    /\ MySQLFrame

\* return parseRows(rows)
ParseRows ==
    /\ op = "rows"
    /\ \E ok \in BOOLEAN :
        IF ok
        THEN /\ out' = ExecuteSucceeds
             /\ conn' = DeferredClose(conn, "ok")
        ELSE /\ out' = ExecuteFails("parse")
             /\ conn' = DeferredClose(conn, "parse")
    /\ op' = "returned"
    /\ MySQLFrame

NextMySQL ==
    \/ ExecuteStart
    \/ Connect
    \/ Query
    \/ ParseRows

SpecMySQL == InitMySQL /\ [][NextMySQL]_vars

\* ------------------------------------------------- TSV export and mock load
\* len(record) < 21
MinColumns == 21

\* *time.Time fields of db.TrackedSample; a time is a whole number of
\* seconds within one hour
NilTime == [isNil |-> TRUE, v |-> 0]
TimePtr(t) == [isNil |-> FALSE, v |-> t]

\* db.TrackedSample with its 21 fields
TsvSample(study, created, lib, seq, qcDone) ==
    [StudyID |-> <<100>>, StudyName |-> study, FacultySponsor |-> <<65>>,
     Programme |-> <<103>>, SangerSampleID |-> <<73>>, SupplierName |-> <<80>>,
     ManifestCreated |-> created, ManifestUploaded |-> NilTime,
     LabwareReceived |-> TimePtr(1), LabwareHumanBarcode |-> <<98>>,
     OrderMade |-> NilTime, LibraryStart |-> TimePtr(2),
     LibraryComplete |-> NilTime, LibraryTime |-> lib, RunID |-> <<114>>,
     Platform |-> <<112>>, Pipeline |-> <<108>>,
     SequencingRunStart |-> TimePtr(3), SequencingQCComplete |-> qcDone,
     SequencingTime |-> seq, QCPass |-> <<113>>]

\* strconv.Itoa
RECURSIVE Digits(_)
Digits(n) ==
    IF n < 10 THEN <<48 + n>> ELSE Digits(n \div 10) \o <<48 + (n % 10)>>
Itoa(n) == IF n < 0 THEN <<45>> \o Digits(0 - n) ELSE Digits(n)

IsDigit(b) == b \in 48..57
RECURSIVE DigitsValue(_, _)
DigitsValue(ds, acc) ==
    IF ds = <<>> THEN acc
    ELSE DigitsValue(Tail(ds), 10 * acc + (Head(ds) - 48))

\* strconv.Atoi: an optional sign and at least one decimal digit
Atoi(str) ==
    LET signed == str # <<>> /\ Head(str) \in {43, 45}
        body == IF signed THEN Tail(str) ELSE str
    IN  IF body = <<>> \/ \E i \in 1..Len(body) : ~IsDigit(body[i])
        THEN [ok |-> FALSE, v |-> 0]
        ELSE [ok |-> TRUE,
              v |-> IF signed /\ Head(str) = 45
                    THEN 0 - DigitsValue(body, 0)
                    ELSE DigitsValue(body, 0)]

\* t.Format(time.RFC3339), minute and second part: "04:05Z"
TwoDigits(n) == <<48 + (n \div 10), 48 + (n % 10)>>
FormatRFC3339(t) == TwoDigits(t \div 60) \o <<58>> \o TwoDigits(t % 60) \o <<90>>

\* time.Parse(time.RFC3339, str) on that part
ParseRFC3339(str) ==
    IF /\ Len(str) = 6
       /\ \A i \in {1, 2, 4, 5} : IsDigit(str[i])
       /\ str[3] = 58
       /\ str[6] = 90
       /\ DigitsValue(SubSeq(str, 1, 2), 0) < 60
       /\ DigitsValue(SubSeq(str, 4, 5), 0) < 60
    THEN [ok |-> TRUE,
          v |-> 60 * DigitsValue(SubSeq(str, 1, 2), 0)
                + DigitsValue(SubSeq(str, 4, 5), 0)]
    ELSE [ok |-> FALSE, v |-> 0]

formatTimePointer(t) == IF t.isNil THEN <<>> ELSE FormatRFC3339(t.v)

formatIntPointerZero(i) == IF i.isNil THEN <<48>> ELSE Itoa(i.v)
formatIntPointer(i) == IF i.isNil THEN <<>> ELSE Itoa(i.v)

parseTime(str) ==
    IF str = <<>> THEN NilTime
    ELSE IF ~ParseRFC3339(str).ok THEN NilTime
    ELSE TimePtr(ParseRFC3339(str).v)

parseInt(str) ==
    IF str = <<>> THEN NilInt
    ELSE IF ~Atoi(str).ok THEN NilInt
    ELSE IntPtr(Atoi(str).v)

\* the 21 column names of the header line
Header == [i \in 1..MinColumns |-> <<104, 64 + i>>]

\* the row ToTSV writes for a sample
TsvRow(sample) ==
    << sample.StudyID, sample.StudyName, sample.FacultySponsor,
       sample.Programme, sample.SangerSampleID, sample.SupplierName,
       formatTimePointer(sample.ManifestCreated),
       formatTimePointer(sample.ManifestUploaded),
       formatTimePointer(sample.LabwareReceived),
       sample.LabwareHumanBarcode,
       formatTimePointer(sample.OrderMade),
       formatTimePointer(sample.LibraryStart),
       formatTimePointer(sample.LibraryComplete),
       formatIntPointer(sample.LibraryTime),
       sample.RunID, sample.Platform, sample.Pipeline,
       formatTimePointer(sample.SequencingRunStart),
       formatTimePointer(sample.SequencingQCComplete),
       formatIntPointer(sample.SequencingTime),
       sample.QCPass >>

\* csv.Writer with Comma = '\t': a field is quoted when it holds a tab, a
\* quote, CR or LF, or starts with a space
fieldNeedsQuotes(field) ==
    /\ field # <<>>
    /\ \/ field = <<92, 46>>
       \/ \E i \in 1..Len(field) : field[i] \in {9, 34, 13, 10}
       \/ field[1] \in {32, 11, 12}

RECURSIVE EscapeQuotes(_)
EscapeQuotes(field) ==
    IF field = <<>> THEN <<>>
    ELSE (IF Head(field) = 34 THEN <<34, 34>> ELSE <<Head(field)>>)
         \o EscapeQuotes(Tail(field))

WriteField(field) ==
    IF fieldNeedsQuotes(field)
    THEN <<34>> \o EscapeQuotes(field) \o <<34>>
    ELSE field

RECURSIVE JoinFields(_)
JoinFields(fields) ==
    IF fields = <<>> THEN <<>>
    ELSE IF Len(fields) = 1 THEN WriteField(fields[1])
    ELSE WriteField(Head(fields)) \o <<9>> \o JoinFields(Tail(fields))

\* the lines that a run of bytes ending in LF makes in the file
RECURSIVE SplitLines(_, _, _)
SplitLines(b, line, lines) ==
    IF b = <<>> THEN Append(lines, line)
    ELSE IF Head(b) = 10 THEN SplitLines(Tail(b), <<>>, Append(lines, line))
    ELSE SplitLines(Tail(b), Append(line, Head(b)), lines)

\* writer.Write(row): the fields, tabs between them, LF at the end
WriteRecord(row) == SplitLines(JoinFields(row), <<>>, <<>>)

RECURSIVE WriteRecords(_)
WriteRecords(rows) ==
    IF rows = <<>> THEN <<>>
    ELSE WriteRecord(Head(rows)) \o WriteRecords(Tail(rows))

\* the lines ToTSV leaves in the file
ToTSV(ss) ==
    WriteRecord(Header) \o WriteRecords([i \in 1..Len(ss) |-> TsvRow(ss[i])])

\* csv.Reader with Comma = '\t': a line is read with its CR LF ending
\* replaced by LF
readLine(line) ==
    IF line # <<>> /\ line[Len(line)] = 13
    THEN SubSeq(line, 1, Len(line) - 1)
    ELSE line

ParsedField(err, text, li, next, last) ==
    [err |-> err, text |-> text, li |-> li, next |-> next, last |-> last]

\* a field that does not start with a quote, from byte i of line li
RECURSIVE BareField(_, _, _, _)
BareField(lines, li, i, text) ==
    IF i > Len(readLine(lines[li])) THEN ParsedField(FALSE, text, li, i, TRUE)
    ELSE IF readLine(lines[li])[i] = 9
         THEN ParsedField(FALSE, text, li, i + 1, FALSE)
    ELSE IF readLine(lines[li])[i] = 34 THEN ParsedField(TRUE, <<>>, li, i, TRUE)
    ELSE BareField(lines, li, i + 1, Append(text, readLine(lines[li])[i]))

\* a field that starts with a quote, from the byte after it; the field goes
\* on in the next line when the line ends inside the quotes
RECURSIVE QuotedField(_, _, _, _)
QuotedField(lines, li, i, text) ==
    LET line == readLine(lines[li])
    IN  IF i > Len(line)
        THEN IF li = Len(lines) THEN ParsedField(TRUE, <<>>, li, i, TRUE)
             ELSE QuotedField(lines, li + 1, 1, Append(text, 10))
        ELSE IF line[i] # 34 THEN QuotedField(lines, li, i + 1, Append(text, line[i]))
        ELSE IF i + 1 > Len(line) THEN ParsedField(FALSE, text, li, i + 1, TRUE)
        ELSE IF line[i + 1] = 34 THEN QuotedField(lines, li, i + 2, Append(text, 34))
        ELSE IF line[i + 1] = 9 THEN ParsedField(FALSE, text, li, i + 2, FALSE)
        ELSE ParsedField(TRUE, <<>>, li, i, TRUE)

\* the fields of the record that goes on at byte i of line li
RECURSIVE ReadRecord(_, _, _, _)
ReadRecord(lines, li, i, fields) ==
    LET f == IF i <= Len(readLine(lines[li])) /\ readLine(lines[li])[i] = 34
             THEN QuotedField(lines, li, i + 1, <<>>)
             ELSE BareField(lines, li, i, <<>>)
    IN  IF f.err THEN [err |-> TRUE, fields |-> <<>>, li |-> li]
        ELSE IF f.last
             THEN [err |-> FALSE, fields |-> Append(fields, f.text), li |-> f.li + 1]
        ELSE ReadRecord(lines, f.li, f.next, Append(fields, f.text))

\* reader.ReadAll(): empty lines are skipped, and every record must have as
\* many fields as the first
RECURSIVE ReadRecords(_, _, _)
ReadRecords(lines, li, records) ==
    IF li > Len(lines) THEN [err |-> FALSE, records |-> records]
    ELSE IF readLine(lines[li]) = <<>> THEN ReadRecords(lines, li + 1, records)
    ELSE LET r == ReadRecord(lines, li, 1, <<>>)
         IN  IF r.err THEN [err |-> TRUE, records |-> <<>>]
             ELSE IF records # <<>> /\ Len(r.fields) # Len(records[1])
                  THEN [err |-> TRUE, records |-> <<>>]
             ELSE ReadRecords(lines, r.li, Append(records, r.fields))

ReadAll(lines) == ReadRecords(lines, 1, <<>>)

recordToSample(record) ==
    [StudyID |-> record[1], StudyName |-> record[2],
     FacultySponsor |-> record[3], Programme |-> record[4],
     SangerSampleID |-> record[5], SupplierName |-> record[6],
     ManifestCreated |-> parseTime(record[7]),
     ManifestUploaded |-> parseTime(record[8]),
     LabwareReceived |-> parseTime(record[9]),
     LabwareHumanBarcode |-> record[10],
     OrderMade |-> parseTime(record[11]),
     LibraryStart |-> parseTime(record[12]),
     LibraryComplete |-> parseTime(record[13]),
     LibraryTime |-> parseInt(record[14]),
     RunID |-> record[15], Platform |-> record[16], Pipeline |-> record[17],
     SequencingRunStart |-> parseTime(record[18]),
     SequencingQCComplete |-> parseTime(record[19]),
     SequencingTime |-> parseInt(record[20]),
     QCPass |-> record[21]]

\* (nil, err) and (&TrackedSampleCollection{Samples: ss}, nil)
MockFails(why) == [kind |-> "err", why |-> why, samples |-> <<>>]
MockReturns(ss) == [kind |-> "ok", why |-> "none", samples |-> ss]

\* a loader that stops at a short row and returns what it has
RECURSIVE parseMockRecordsPartial(_, _)
parseMockRecordsPartial(records, ss) ==
    IF records = <<>> THEN MockReturns(ss)
    ELSE IF Len(Head(records)) < MinColumns THEN MockReturns(ss)
    ELSE parseMockRecordsPartial(Tail(records),
                                 Append(ss, recordToSample(Head(records))))
RECURSIVE parseMockRecords(_, _)
parseMockRecords(records, ss) ==
    IF records = <<>> THEN MockReturns(ss)
    ELSE IF Len(Head(records)) < MinColumns THEN MockFails("columns")
    ELSE parseMockRecords(Tail(records),
                          Append(ss, recordToSample(Head(records))))

\* MockQueryProvider.Execute on the file
MockExecute(f) ==
    IF f = NoFile THEN MockFails("open")
    ELSE IF ReadAll(f).err THEN MockFails("read")
    ELSE IF Len(ReadAll(f).records) < 2 THEN MockFails("rows")
    ELSE parseMockRecords(Tail(ReadAll(f).records), <<>>)

\* the collections that are exported
RoundTripSamples ==
    { TsvSample(<<>>, NilTime, NilInt, NilInt, NilTime),
      TsvSample(<<83>>, TimePtr(0), IntPtr(0), IntPtr(12), NilTime),
      TsvSample(<<83>>, TimePtr(75), IntPtr(0 - 3), NilInt, TimePtr(3599)),
      TsvSample(<<115>>, TimePtr(3599), IntPtr(105), IntPtr(0), TimePtr(0)),
      TsvSample(<<32, 34, 9>>, NilTime, IntPtr(0), NilInt, NilTime),
      TsvSample(<<83, 13, 10>>, NilTime, NilInt, NilInt, NilTime) }

\* the rows of the files that are written by hand
FileRows ==
    {[i \in 1..n |-> IF i = 5 THEN id ELSE <<120>>] :
        n \in {MinColumns - 1, MinColumns, MinColumns + 1},
        id \in {<<73>>, <<74>>}}

\* everything but the file, the input and the result
MockFrame ==
    UNCHANGED <<argSponsor, argStudy, serverVars, conn, cacheSide>>

\* a collection to export, or a file of header and data rows, or no file
InitMock ==
    /\ NewCache(0)
    /\ argSponsor = EmptyString
    /\ argStudy = EmptyString
    /\ out = MockFails("none")
    /\ cfgTTL = NoServer
    /\ cacheCallAt = Never
    /\ conn = NewConnector
    /\ \/ /\ op = "none"
          /\ recs \in SlicesOf(RoundTripSamples)
          /\ file = NoFile
       \/ /\ op = "file"
          /\ recs \in UNION {[1..n -> FileRows] : n \in 0..(MaxRecs + 1)}
          /\ file = WriteRecords(recs)
       \/ /\ op = "file"
          /\ recs = <<>>
          /\ file = NoFile

\* sc.ToTSV(path)
ExportTSV ==
    /\ op = "none"
    /\ op' = "tsv"
    /\ file' = ToTSV(recs)
    /\ UNCHANGED <<recs, out>>
    /\ MockFrame

\* provider.Execute() of the MockQueryProvider made for the path
LoadMock ==
    /\ op \in {"tsv", "file"}
    /\ op' = IF op = "tsv" THEN "reloaded" ELSE "read"
    /\ out' = MockExecute(file)
    /\ UNCHANGED <<recs, file>>
    /\ MockFrame

NextMock ==
    \/ ExportTSV
    \/ LoadMock

SpecMock == InitMock /\ [][NextMock]_vars

\* ================================================================ claims
\* a caller performs a freshness check in this step
Checks(c) == pc[c] \in {"check1", "lockwait"} /\ pc'[c] # pc[c]

\* the calls whose first check found the cache stale after k invocations:
\* they are all in flight when invocation k+1 starts
Cohort(k) == {c \in Callers : staleAt[c] = k}
CohortDone(k) ==
    /\ Cardinality(Cohort(k)) >= 2
    /\ \A c \in Cohort(k) : pc[c] = "done" /\ result[c].kind = "ok"
    /\ (k + 1) \notin failed
CohortInvocations(k) == {k + 1} \cup ({myInv[c] : c \in Cohort(k)} \ {0})
SingleFlight(k) ==
    /\ CohortInvocations(k) = {k + 1}
    /\ \A c \in Cohort(k) : result[c] = Ok(k + 1)

C2_FreshnessWindow ==
    [][/\ \A c \in Callers, v \in Versions :
            (/\ ttl > 0
             /\ Checks(c)
             /\ storedAt[v] # Never
             /\ storedAt[v] <= now
             /\ now < storedAt[v] + ttl)
            => (/\ result'[c] = Ok(v)
                /\ myInv'[c] = 0
                /\ fetchCount' = fetchCount)
       /\ \A c \in Callers :
            result[c].kind # "none" => result'[c] = result[c]]_vars

C2_Witness ==
    \E c \in Callers :
        /\ ttl > 0
        /\ pc[c] = "done"
        /\ staleAt[c] = -1
        /\ myInv[c] = 0
        /\ result[c].kind = "ok"
        /\ storedAt[result[c].val] < now

\* C3: a freshness check made at or after t0 + ttl, t0 being the store time
\* of the held collection, does not serve it; the re-check invokes the
\* provider, and a call never invokes the provider twice.
C3_ExpiryBoundary ==
    [][/\ \A c \in Callers :
            (/\ Checks(c)
             /\ refreshed # Nil
             /\ now >= storedAt[refreshed] + ttl)
            => (/\ result'[c] = NoResult
                /\ pc[c] = "check1" => pc'[c] = "lock"
                /\ pc[c] = "lockwait" =>
                       (/\ pc'[c] = "exec"
                        /\ fetchCount' = fetchCount + 1
                        /\ myInv'[c] = fetchCount'))
       /\ \A c \in Callers :
            /\ myInv[c] # 0 => myInv'[c] = myInv[c]
            /\ (myInv[c] # 0 /\ pc[c] # "done") => fetchCount' = fetchCount]_vars

C3_Witness ==
    \E c \in Callers :
        /\ ttl > 0
        /\ pc[c] = "exec"
        /\ refreshed # Nil
        /\ now = storedAt[refreshed] + ttl

\* C4 (as stated): a call that waited on a refresh whose provider invocation
\* failed returns that same failure and does not invoke the provider.
C4_WaitersShareFailure ==
    \A c \in Callers :
        (pc[c] = "done" /\ waitedFail[c] # 0)
        => (result[c] = Err(waitedFail[c]) /\ myInv[c] = 0)

\* C4 (amended): a call that waited on a refresh whose provider invocation
\* failed never returns that failure; after its re-check it either invokes
\* the provider itself, once, and returns that invocation's own outcome, or
\* returns the collection stored by a later successful refresh.
C4_WaitersRetry ==
    \A c \in Callers :
        (pc[c] = "done" /\ waitedFail[c] # 0)
        => (/\ result[c] # Err(waitedFail[c])
            /\ \/ (/\ myInv[c] = 0
                   /\ result[c].kind = "ok"
                   /\ result[c].val > waitedFail[c])
               \/ (/\ myInv[c] > waitedFail[c]
                   /\ result[c] \in {Ok(myInv[c]), Err(myInv[c])}))

C4_Witness ==
    \E c, d \in Callers :
        /\ c # d
        /\ pc[c] = "done" /\ pc[d] = "done"
        /\ waitedFail[c] # 0 /\ waitedFail[d] # 0
        /\ myInv[c] > waitedFail[c]
        /\ samples # Nil

\* C5: at most one provider invocation is in progress at any time.
C5_ProviderMutex == Cardinality({c \in Callers : pc[c] = "exec"}) <= 1

C5_Witness ==
    \E c, d \in Callers :
        /\ pc[c] = "exec"
        /\ pc[d] \in {"lock", "lockwait"}
        /\ (failed # {} \/ refreshed # Nil)

\* C6: from the start of a provider invocation to the return of the call
\* that made it, a failing invocation leaves the held collection and the
\* timestamp unchanged, and the call returns that error with no collection.
C6_FailureKeepsCache ==
    [][\A c \in Callers :
        (pc[c] = "exec" /\ pc'[c] # "store_time")
        => (/\ samples' = samples
            /\ lastFetched' = lastFetched
            /\ pc'[c] = "done" => result'[c] = Err(myInv[c]))]_vars

C6_Witness ==
    \E c \in Callers :
        /\ pc[c] = "done"
        /\ result[c].kind = "err"
        /\ samples # Nil
        /\ lastFetched # Never

\* C7: after a successful fetch, a call whose later fetch fails returns the
\* error, not the held collection; while the last invocation is a failed
\* one, a freshness check does not serve the held collection and the
\* re-check invokes the provider again.
C7_FailureNotCached ==
    [][\A c \in Callers :
        /\ myInv'[c] \in failed' => result'[c] = Err(myInv'[c])
        /\ (/\ Checks(c)
            /\ refreshed # Nil
            /\ fetchCount \in failed)
           => (/\ result'[c] = NoResult
               /\ pc[c] = "lockwait" =>
                      (pc'[c] = "exec" /\ myInv'[c] = fetchCount + 1))]_vars

C7_Witness ==
    \E c \in Callers :
        /\ pc[c] = "exec"
        /\ refreshed # Nil
        /\ (myInv[c] - 1) \in failed
        /\ refreshed < myInv[c] - 1

\* C8: a freshness check that serves the held collection finds its age,
\* counted from the time that collection was stored, strictly below ttl.
C8_NeverStale ==
    [][\A c \in Callers :
        (Checks(c) /\ result'[c].kind = "ok")
        => (/\ samples # Nil
            /\ result'[c] = Ok(samples)
            /\ storedAt[samples] # Never
            /\ lastFetched = storedAt[samples]
            /\ now - storedAt[samples] < ttl)]_vars

C8_Witness ==
    \E c \in Callers :
        /\ pc[c] = "done"
        /\ myInv[c] = 0
        /\ result[c].kind = "ok"
        /\ \E k \in failed : k < result[c].val

\* C9: a call returns a collection at least as recent as the last refresh
\* stored before the call started.
C9_MonotonicFreshness ==
    \A c \in Callers :
        result[c].kind = "ok" => result[c].val >= startRef[c]

C9_Witness ==
    \E c \in Callers :
        /\ pc[c] = "done"
        /\ result[c].kind = "ok"
        /\ startRef[c] >= 2
        /\ myInv[c] = 0

\* C10: every freshness check reads a collection and a timestamp that were
\* written by the same store.
C10_AtomicReplacement ==
    [][\A c \in Callers : Checks(c) => lfVer = samples]_vars

C10_Witness ==
    \E w, d \in Callers :
        /\ pc[w] = "store_time"
        /\ lfVer # samples
        /\ lfVer # Nil
        /\ pc[d] = "rlock"

\* C11: a finished call returns either the error of the provider invocation
\* it made itself, when that invocation failed, or else a collection that a
\* successful provider invocation produced and the cache stored; never an
\* error without a failed invocation of its own, never a collection in place
\* of its provider error, never a collection no invocation produced.
C11_ResultsFromProvider ==
    \A c \in Callers :
        pc[c] = "done" =>
            IF myInv[c] \in failed
            THEN result[c] = Err(myInv[c])
            ELSE /\ result[c].kind = "ok"
                 /\ result[c].val \in Versions
                 /\ result[c].val \notin failed
                 /\ storedAt[result[c].val] # Never

C11_Witness ==
    \E c, d \in Callers :
        /\ pc[c] = "done" /\ pc[d] = "done"
        /\ result[c].kind = "err"
        /\ result[d].kind = "ok"
        /\ myInv[d] = 0
        /\ samples # Nil
        /\ refreshed < myInv[c]

\* C12: with a ttl of zero no call is served from the cache: every finished
\* call has invoked the provider, whatever was stored before it started.
C12_ZeroTTLAlwaysFetches ==
    \A c \in Callers :
        (ttl = 0 /\ pc[c] = "done") => (myInv[c] # 0 /\ staleAt[c] >= 0)

C12_Witness ==
    \E c \in Callers :
        /\ ttl = 0
        /\ pc[c] = "done"
        /\ startRef[c] # Nil
        /\ storedAt[startRef[c]] = now
        /\ myInv[c] > startRef[c]

\* the sponsor values of the records of a slice
SponsorsIn(ss) == {ss[i].FacultySponsor : i \in 1..Len(ss)}
StrictlyAscending(xs) ==
    \A i, j \in 1..Len(xs) : i < j => LexLess(xs[i], xs[j])
Elements(xs) == {xs[i] : i \in 1..Len(xs)}

\* C13: GetUniqueFacultySponsors returns, for every record slice including
\* the empty one, exactly the non-empty sponsor values of the input, each
\* once, in ascending lexicographic order
C13_UniqueSponsorsSorted ==
    op = "sponsors" =>
        /\ StrictlyAscending(out)
        /\ Elements(out) = SponsorsIn(recs) \ {EmptyString}

\* two sponsors that arrive in descending order next to a record without one
C13_Witness ==
    /\ op = "sponsors"
    /\ Len(out) = 2
    /\ recs[1].FacultySponsor = out[2]
    /\ \E i \in 1..Len(recs) : recs[i].FacultySponsor = EmptyString

\* the indices of the records FilterSamples must keep
Kept(ss, sponsor, study) ==
    {i \in 1..Len(ss) :
        /\ ss[i].FacultySponsor = sponsor
        /\ (study # EmptyString => ss[i].StudyName = study)}

\* xs is the subsequence of ss at the indices of K, in input order
IsSubsequenceAt(xs, ss, K) ==
    /\ Len(xs) = Cardinality(K)
    /\ \A i \in K : xs[Cardinality({j \in K : j <= i})] = ss[i]

\* C14: GetStudiesForSponsor returns exactly the non-empty study names of the
\* records whose sponsor is byte-for-byte the given sponsor, each once, in
\* ascending order; studies of other sponsors never appear
C14_StudiesOfExactSponsor ==
    op = "studies" =>
        /\ StrictlyAscending(out)
        /\ Elements(out) =
              {recs[i].StudyName :
                  i \in {j \in 1..Len(recs) : recs[j].FacultySponsor = argSponsor}}
              \ {EmptyString}

\* sponsor "A" has one study; "a" and "A " have another that is left out
C14_Witness ==
    /\ op = "studies"
    /\ argSponsor = <<65>>
    /\ Len(out) = 1
    /\ \E i, j \in 1..Len(recs) :
        /\ recs[i].FacultySponsor = <<97>>
        /\ recs[j].FacultySponsor = <<65, 32>>
        /\ recs[i].StudyName \notin {EmptyString, out[1]}
        /\ recs[j].StudyName = recs[i].StudyName

\* C15: with a non-empty sponsor FilterSamples returns exactly the records
\* whose sponsor equals it and, when study is non-empty, whose study equals
\* study, in their input order
C15_FilterKeepsMatches ==
    (op = "filter" /\ argSponsor # EmptyString) =>
        IsSubsequenceAt(out, recs, Kept(recs, argSponsor, argStudy))

\* a record of the sponsor with another study is dropped between two kept ones
C15_Witness ==
    /\ op = "filter"
    /\ argSponsor # EmptyString
    /\ argStudy # EmptyString
    /\ Len(recs) = 3
    /\ Len(out) = 2
    /\ out[1] = recs[1]
    /\ out[2] = recs[3]
    /\ recs[2].FacultySponsor = argSponsor
    /\ recs[2].StudyName # argStudy

\* C16: with an empty sponsor FilterSamples returns its input as it is,
\* whatever the study argument
C16_EmptySponsorIdentity ==
    (op = "filter" /\ argSponsor = EmptyString) => out = recs

\* a non-empty study that no record has, and records with and without sponsor
C16_Witness ==
    /\ op = "filter"
    /\ argSponsor = EmptyString
    /\ argStudy # EmptyString
    /\ Len(out) = 3
    /\ \A i \in 1..Len(recs) : recs[i].StudyName # argStudy
    /\ \E i, j \in 1..Len(recs) :
        recs[i].FacultySponsor = EmptyString /\ recs[j].FacultySponsor # EmptyString

\* the duration a chart entry must show
Shown(p) == IF p = NilInt THEN 0 ELSE p.v

\* C17: the four chart sequences have the length of the input, entry i comes
\* from record i, and a duration is the record's when present and 0 when absent
C17_ChartParallel ==
    op = "chart" =>
        /\ Len(out.Labels) = Len(recs)
        /\ Len(out.SampleIds) = Len(recs)
        /\ Len(out.LibraryTime) = Len(recs)
        /\ Len(out.SequencingTime) = Len(recs)
        /\ \A i \in 1..Len(recs) :
            /\ out.SampleIds[i] = recs[i].SangerSampleID
            /\ out.LibraryTime[i] = Shown(recs[i].LibraryTime)
            /\ out.SequencingTime[i] = Shown(recs[i].SequencingTime)

\* an absent and a present library time, an absent sequencing time
C17_Witness ==
    /\ op = "chart"
    /\ Len(recs) = 3
    /\ recs[1].LibraryTime = NilInt
    /\ recs[2].LibraryTime = IntPtr(3)
    /\ recs[3].SequencingTime = NilInt
    /\ recs[1].SequencingTime = IntPtr(5)
    /\ recs[1].SangerSampleID # recs[2].SangerSampleID

C19_LabelIsSupplierName ==
    op = "chart" =>
        \A i \in 1..Len(recs) :
            /\ i \in DOMAIN out.Labels
            /\ i \in DOMAIN out.SampleIds
            /\ out.Labels[i] = recs[i].SupplierName
            /\ out.SampleIds[i] = recs[i].SangerSampleID

\* C20: none of the four functions writes to the slice it is given
C20_InputUnchanged ==
    [][op' # op => recs' = recs]_vars

\* FilterSamples has returned one record, and not the first of its input
C20_Witness ==
    /\ op = "filter"
    /\ Len(recs) = 3
    /\ Len(out) = 1
    /\ out[1] # recs[1]

\* C25: the timestamp of a successful refresh is the time of the store, not
\* the time the provider call started, and a caller that waited for the call
\* finds the collection fresh when its re-check comes less than ttl after
\* the store, however long the call lasted
C25_TimestampAtStore ==
    [][\A c \in Callers :
        /\ (pc[c] = "store_time" /\ pc'[c] = "done")
           => (lastFetched' = now /\ lastFetched' >= execAt)
        /\ (/\ pc[c] = "lockwait"
            /\ Checks(c)
            /\ refreshed = fetchCount
            /\ staleAt[c] < refreshed
            /\ now - storedAt[refreshed] < ttl)
           => (result'[c] = Ok(refreshed) /\ myInv'[c] = 0)]_vars

\* a provider call that lasted as long as the ttl, and a waiter served by it
C25_Witness ==
    \E d \in Callers :
        /\ ttl > 0
        /\ refreshed # Nil
        /\ refreshed = fetchCount
        /\ execAt < storedAt[refreshed]
        /\ lastFetched = storedAt[refreshed]
        /\ now - execAt >= ttl
        /\ pc[d] = "done"
        /\ staleAt[d] = refreshed - 1
        /\ myInv[d] = 0
        /\ result[d] = Ok(refreshed)

\* C26: while the held collection is fresh and no writer holds or awaits the
\* lock, a call can take the read lock whoever else holds it, and a call that
\* holds it returns without waiting for the other readers
C26_ReadersShare ==
    \A c \in Callers :
        (FirstCheckFresh /\ writer = NoWriter) =>
            /\ pc[c] = "rlock" => ENABLED RLock(c)
            /\ pc[c] = "check1" => ENABLED (FirstCheck(c) /\ pc'[c] = "done")

\* two calls hold the read lock on a fresh cache
C26_Witness ==
    /\ FirstCheckFresh
    /\ writer = NoWriter
    /\ \E c, d \in Callers : c # d /\ {c, d} \subseteq readers

\* C27: while a call is between the start of its provider invocation and its
\* own return, no other call returns
C27_LockHeldDuringExecute ==
    [][\A c, d \in Callers :
        (c # d /\ pc[c] \in {"exec", "store_time"} /\ pc'[d] = "done")
        => pc[d] = "done"]_vars

\* an invocation in progress, one call that arrived before it and one that
\* has not passed the read lock
C27_Witness ==
    \E c, d, e \in Callers :
        /\ pc[c] = "exec"
        /\ pc[d] = "lock"
        /\ staleAt[d] < myInv[c]
        /\ pc[e] = "rlock"

\* C28: every call that has started returns; a call that returns holds no
\* lock, and with no call in progress the mutex is free
C28_NoDeadlockNoLeak ==
    /\ [](\A c \in Callers : pc[c] = "done" => (c \notin readers /\ writer # c))
    /\ []((\A c \in Callers : pc[c] \in {"idle", "done"})
            => (readers = {} /\ writer = NoWriter))
    /\ \A c \in Callers : (pc[c] # "idle") ~> (pc[c] = "done")

\* all calls have returned: one by the fast path, one after a failed
\* invocation, one after a successful one
C28_Witness ==
    /\ \A c \in Callers : pc[c] = "done"
    /\ failed # {}
    /\ refreshed # Nil
    /\ \E c \in Callers : staleAt[c] = -1
    /\ readers = {}
    /\ writer = NoWriter

\* a handler's call of GetSamples invoked the provider and got an error:
\* an invocation was counted and nothing was stored
ProviderFailed == fetchCount' = fetchCount + 1 /\ samples' = samples

\* C21: when GetSamples returns an error to handleSamples, handleChart,
\* handleFilters or handleStudies, the response is a 500 that carries no
\* rows, series, sponsors or studies
C21_FailureIs500 ==
    [][ProviderFailed =>
        /\ op' \in {"samples", "chart", "filters", "studies"}
        /\ out'.status = 500
        /\ out'.kind = "error"
        /\ out'.payload = <<>>]_vars

\* a refresh fails while an older collection is held
C21_Witness ==
    /\ op \in {"samples", "chart", "filters", "studies"}
    /\ out.status = 500
    /\ samples # Nil
    /\ fetchCount > samples
    /\ cacheCallAt = now

\* C22: with an empty sponsor or study parameter handleSamples answers 200
\* with the no-data table and handleChart 200 with four empty series; neither
\* calls GetSamples, so no provider invocation is made and the collection and
\* the timestamp stay as they are
C22_EmptyFilterSkipsCache ==
    [][(/\ now' = now
        /\ op' \in {"samples", "chart"}
        /\ (argSponsor' = EmptyString \/ argStudy' = EmptyString))
       => (/\ cacheCallAt' = Never
           /\ fetchCount' = fetchCount
           /\ samples' = samples
           /\ lastFetched' = lastFetched
           /\ out'.status = 200
           /\ op' = "samples" =>
                out'.payload = [HasData |-> FALSE, Samples |-> <<>>]
           /\ op' = "chart" =>
                out'.payload = [Labels |-> <<>>, SampleIds |-> <<>>,
                                LibraryTime |-> <<>>, SequencingTime |-> <<>>])]_vars

\* a chart request with a sponsor but no study, on a cache that has expired
C22_Witness ==
    /\ op = "chart"
    /\ argSponsor # EmptyString
    /\ argStudy = EmptyString
    /\ out.status = 200
    /\ cacheCallAt = Never
    /\ samples # Nil
    /\ ~Fresh(samples, lastFetched)

\* C29: a server built with Config.CacheTTL = 0 has a cache with a ttl of 5
\* minutes: a request made less than 5 minutes after a successful fetch
\* causes no provider invocation
C29_ZeroConfigDefaultsTTL ==
    [][cfgTTL = 0 =>
        /\ ttl = DefaultTTL
        /\ (samples # Nil /\ now - lastFetched < DefaultTTL)
           => fetchCount' = fetchCount]_vars

\* after the one fetch, a later request was served from the cache
C29_Witness ==
    /\ cfgTTL = 0
    /\ fetchCount = 1
    /\ samples = 1
    /\ cacheCallAt # Never
    /\ cacheCallAt > lastFetched
    /\ op # "none"
    /\ out.status = 200

\* C23: Execute always calls Connect; after a successful Connect it calls
\* Close before it returns, by whichever path; a nil handle makes it return
\* an error without running the query; after a failed Connect it returns the
\* error and does not call Close
C23_ConnectClosePaired ==
    /\ [](op \in {"none", "returned"} =>
            /\ conn.connects = conn.calls
            /\ conn.closes = conn.connects - conn.fails
            /\ conn.queries = conn.connects - conn.fails - conn.nils)
    /\ [][(op # "returned" /\ op' = "returned") =>
            /\ op = "connecting" =>
                (out'.kind = "err" /\ conn'.closes = conn.closes)
            /\ op # "connecting" => conn'.closes = conn.closes + 1
            /\ conn.db = "nil" =>
                (out'.kind = "err" /\ conn'.queries = conn.queries)]_vars

\* Execute has returned by each of its five paths
C23_Witness ==
    /\ op = "returned"
    /\ conn.calls = NumCallers
    /\ conn.fails >= 1
    /\ conn.nils >= 1
    /\ conn.queries >= 1
    /\ conn.closes = conn.calls - conn.fails

\* C24: MockQueryProvider.Execute returns an error and no collection, or a
\* collection with one record per data row in file order; a missing file, a
\* file of fewer than two rows and a data row of fewer than 21 columns give
\* an error
C24_MockAllOrNothing ==
    op = "read" =>
        /\ out.kind \in {"ok", "err"}
        /\ out.kind = "err" => out.samples = <<>>
        /\ out.kind = "ok" =>
            /\ Len(out.samples) = Len(recs) - 1
            /\ \A i \in 1..Len(out.samples) :
                out.samples[i].SangerSampleID = recs[i + 1][5]
        /\ file = NoFile => out.kind = "err"
        /\ Len(recs) < 2 => out.kind = "err"
        /\ (\E i \in 2..Len(recs) : Len(recs[i]) < MinColumns)
           => out.kind = "err"

\* a short row after a complete one
C24_Witness ==
    /\ op = "read"
    /\ Len(recs) = 3
    /\ Len(recs[2]) >= MinColumns
    /\ Len(recs[3]) < MinColumns
    /\ out.kind = "err"
    /\ out.samples = <<>>

\* no tab, LF, CR or quote, and no space in front
PlainString(str) ==
    /\ \A i \in 1..Len(str) : str[i] \notin {9, 10, 13, 34}
    /\ str # <<>> => str[1] # 32

\* C30: a non-empty collection of plain strings and whole-second times,
\* written by ToTSV and read by MockQueryProvider.Execute, comes back with
\* the same records in the same order, absent values still absent
C30_ExportLoadRoundTrip ==
    (/\ op = "reloaded"
     /\ Len(recs) >= 1
     /\ \A i \in 1..Len(recs) : PlainString(recs[i].StudyName))
    => (out.kind = "ok" /\ out.samples = recs)

\* absent and present times and durations, a duration of zero
C30_Witness ==
    /\ op = "reloaded"
    /\ Len(recs) = 3
    /\ \A i \in 1..Len(recs) : PlainString(recs[i].StudyName)
    /\ recs[1].LibraryTime = NilInt
    /\ recs[1].ManifestCreated = NilTime
    /\ recs[2].LibraryTime = IntPtr(0)
    /\ recs[3].SequencingQCComplete = TimePtr(3599)
    /\ out.samples = recs
====
